---- MODULE Spec2Model ----
(***************************************************************************)
(* Model of src/code/src/genaidataprofiling.py: the LLM response cleaner   *)
(* (clean_json_response), the rule extractor (extract_profile_rules), the  *)
(* rule validation engine with its report writer (validate_data) and the   *)
(* top-level script that chains them.                                      *)
(*                                                                         *)
(* Text is modelled as a sequence of characters (one-character strings),   *)
(* so that the regular expressions, strip/startswith and json.loads act on *)
(* characters.  Diagnostics are TLA+ strings built by concatenation.       *)
(***************************************************************************)
EXTENDS Integers, Sequences, FiniteSets, TLC

VARIABLES
    pc,               \* position of the script / of the function under check
    response,         \* the HTTP response requests.post returned
    rules_text,       \* the text handed to clean_json_response
    cleaned_json,     \* what clean_json_response returned
    profiling_rules,  \* the rule-set text handed to validate_data
    data,             \* the table read from data_file (never modified)
    df,               \* the DataFrame validate_data annotates
    rules,            \* json.loads(rules): the items the for loop iterates
    idx,              \* number of loop iterations completed
    output,           \* the output file
    raised,           \* the exception that left the function, "none" if none
    log               \* the error messages printed, in order

vars == <<pc, response, rules_text, cleaned_json, profiling_rules, data, df,
          rules, idx, output, raised, log>>

-----------------------------------------------------------------------------
(* Bounds of the model *)

\* longest response text, in chunks, handed to clean_json_response
MaxChunks == 4
\* most rules in a rule set
MaxRules == 2
\* most rows in a dataset
MaxRows == 2

-----------------------------------------------------------------------------
(* Characters and text *)

\* the backquote character U+0060 (it cannot be written in a TLA+ string)
BQ == "BQ"

Min(S) == CHOOSE m \in S : \A n \in S : m <= n

RECURSIVE Flatten(_)
\* the concatenation of a sequence of texts
Flatten(ss) == IF ss = <<>> THEN <<>> ELSE Head(ss) \o Flatten(Tail(ss))

\* the literal lit occurs in s at position i
MatchAt(s, i, lit) ==
    /\ i >= 1
    /\ i + Len(lit) - 1 <= Len(s)
    /\ SubSeq(s, i, i + Len(lit) - 1) = lit

\* ```json\n
FenceOpen == <<BQ, BQ, BQ, "j", "s", "o", "n", "\n">>
\* \n```
FenceClose == <<"\n", BQ, BQ, BQ>>
\* \boxed{
BoxedOpen == <<"\\", "b", "o", "x", "e", "d", "{">>
BoxedClose == <<"}">>

\* re.search(open(.*?)close, s, re.DOTALL): the leftmost position where the
\* pattern matches, and there the shortest group
re_search(open, close, s) ==
    LET ends(i) == {j \in (i + Len(open))..Len(s) : MatchAt(s, j, close)}
        starts == {i \in 1..Len(s) : MatchAt(s, i, open) /\ ends(i) # {}}
    IN  IF starts = {}
        THEN [found |-> FALSE, group |-> <<>>]
        ELSE LET i == Min(starts)
                 j == Min(ends(i))
             IN  [found |-> TRUE, group |-> SubSeq(s, i + Len(open), j - 1)]

\* mutant: the \boxed wrapper is looked for before the fence
clean_json_response_boxed_first(response_text) ==
    LET fence == re_search(FenceOpen, FenceClose, response_text)
        boxed == re_search(BoxedOpen, BoxedClose, response_text)
    IN  IF boxed.found THEN boxed.group
        ELSE IF fence.found THEN fence.group
        ELSE response_text

clean_json_response(response_text) ==
    LET fence == re_search(FenceOpen, FenceClose, response_text)
        boxed == re_search(BoxedOpen, BoxedClose, response_text)
    IN  IF fence.found THEN fence.group
        ELSE IF boxed.found THEN boxed.group
        ELSE response_text

\* the pieces response texts are assembled from
Chunks ==
    { FenceOpen, FenceClose, BoxedOpen,
      <<"b", "o", "x", "e", "d", "{">>,
      <<BQ, BQ, BQ, "j", "s", "o", "n">>,
      BoxedOpen \o <<"x", "}">>,
      <<"}">>, <<"[", "]">>, <<"\n">> }

ChunkLists == UNION {[1..n -> Chunks] : n \in 0..MaxChunks}

RawStrings == {Flatten(cs) : cs \in ChunkLists}

-----------------------------------------------------------------------------
(* JSON values, Python conversions *)

\* a JSON / pandas value: null (None, NaN), a number, a string or a list
JNull == [t |-> "null", n |-> 0, s |-> "", l |-> <<>>]
JNum(x) == [t |-> "num", n |-> x, s |-> "", l |-> <<>>]
JStr(x) == [t |-> "str", n |-> 0, s |-> x, l |-> <<>>]
JList(xs) == [t |-> "list", n |-> 0, s |-> "", l |-> xs]

\* bool(v)
Truthy(v) ==
    CASE v.t = "null" -> FALSE
      [] v.t = "num" -> v.n # 0
      [] v.t = "str" -> v.s # ""
      [] v.t = "list" -> v.l # <<>>

\* repr(v) of a scalar
PyRepr(v) ==
    CASE v.t = "null" -> "None"
      [] v.t = "num" -> ToString(v.n)
      [] v.t = "str" -> "'" \o v.s \o "'"
      [] OTHER -> "[...]"

RECURSIVE JoinRepr(_)
JoinRepr(xs) ==
    IF xs = <<>> THEN ""
    ELSE IF Len(xs) = 1 THEN PyRepr(xs[1])
    ELSE PyRepr(xs[1]) \o ", " \o JoinRepr(Tail(xs))

\* str(v), what an f-string writes for {v}
PyStr(v) ==
    CASE v.t = "null" -> "None"
      [] v.t = "num" -> ToString(v.n)
      [] v.t = "str" -> v.s
      [] v.t = "list" -> "[" \o JoinRepr(v.l) \o "]"

\* the strings of the model that float() accepts, with their value
NumericLiterals == {<<"5", 5>>, <<"0", 0>>}

\* float(v): the number, or the exception it raises
PyFloat(v) ==
    CASE v.t = "num" -> [exc |-> "none", n |-> v.n]
      [] v.t = "str" ->
            IF \E p \in NumericLiterals : p[1] = v.s
            THEN [exc |-> "none",
                  n |-> (CHOOSE p \in NumericLiterals : p[1] = v.s)[2]]
            ELSE [exc |-> "ValueError", n |-> 0]
      [] OTHER -> [exc |-> "TypeError", n |-> 0]

-----------------------------------------------------------------------------
(* Rule-set text and json.loads *)

\* a rule object as written in a rule-set text: {x} stands for the JSON object
\* whose members ObjectMembers(x) lists
ObjectMembers(ch) ==
    CASE ch = "a" -> [has |-> {"column", "constraint", "value"},
                      column |-> JStr("Amount"),
                      constraint |-> JStr("greater than"), value |-> JNum(0)]
      [] ch = "b" -> [has |-> {"column", "constraint", "value"},
                      column |-> JStr("Status"),
                      constraint |-> JStr("allowed values"),
                      value |-> JList(<<JStr("A"), JStr("B")>>)]
      [] ch = "c" -> [has |-> {"column", "constraint"},
                      column |-> JStr("Amount"),
                      constraint |-> JStr("non-null"), value |-> JNull]
      [] ch = "d" -> [has |-> {"column", "constraint", "value"},
                      column |-> JStr("Branch"),
                      constraint |-> JStr("unique"), value |-> JNum(1)]
      [] ch = "e" -> [has |-> {"column", "constraint", "value"},
                      column |-> JStr("Amount"),
                      constraint |-> JStr("greater than"),
                      value |-> JStr("abc")]
      [] ch = "f" -> [has |-> {"column", "constraint", "value"},
                      column |-> JStr("Status"),
                      constraint |-> JStr("greater than"), value |-> JNum(0)]
      [] ch = "g" -> [has |-> {"column", "constraint", "value"},
                      column |-> JStr("Amount"),
                      constraint |-> JStr("greater-than"), value |-> JNum(0)]
      [] ch = "h" -> [has |-> {"column", "constraint", "value"},
                      column |-> JStr("Status"),
                      constraint |-> JStr("allowed-values"),
                      value |-> JList(<<JStr("A"), JStr("B")>>)]
      [] ch = "k" -> [has |-> {"constraint", "value"},
                      column |-> JNull,
                      constraint |-> JStr("non-null"), value |-> JNum(1)]
      [] ch = "m" -> [has |-> {"column", "constraint", "value"},
                      column |-> JStr("Amount"),
                      constraint |-> JStr("allowed values"),
                      value |-> JNum(5)]
      [] ch = "n" -> [has |-> {"column", "constraint", "value"},
                      column |-> JStr("Error_Details"),
                      constraint |-> JStr("greater than"), value |-> JNum(0)]
      [] ch = "q" -> [has |-> {"column", "constraint", "value"},
                      column |-> JStr("Error_Details"),
                      constraint |-> JStr("allowed values"),
                      value |-> JList(<<JNum(3)>>)]
      [] OTHER    -> [has |-> {}, column |-> JNull, constraint |-> JNull,
                      value |-> JNull]

ObjectLetters ==
    {"a", "b", "c", "d", "e", "f", "g", "h", "k", "m", "n", "q"}

\* the rules that rule sets of every length are built from; the rules g and h,
\* which spell their constraint with a hyphen, come in the texts of OddTexts
RuleLetters == ObjectLetters \ {"g", "h"}

Whitespace == {" ", "\n"}

\* the first position at or after i that holds no whitespace
SkipWs(s, i) ==
    LET rest == {j \in i..Len(s) : s[j] \notin Whitespace}
    IN  IF rest = {} THEN Len(s) + 1 ELSE Min(rest)

\* the first position at or after i that holds no digit
SkipDigits(s, i) ==
    LET rest == {j \in i..Len(s) : s[j] # "1"}
    IN  IF rest = {} THEN Len(s) + 1 ELSE Min(rest)

ParseFail == [ok |-> FALSE, next |-> 0, k |-> "", ch |-> "", items |-> <<>>]

RECURSIVE ParseValue(_, _), ParseElements(_, _, _)
\* a JSON value starting at position i (leading whitespace skipped)
ParseValue(s, i) ==
    LET j == SkipWs(s, i)
    IN  IF j > Len(s) THEN ParseFail
        ELSE IF s[j] = "{" THEN
            LET m == SkipWs(s, j + 1)
            IN  IF m > Len(s) THEN ParseFail
                ELSE IF s[m] = "}"
                THEN [ok |-> TRUE, next |-> m + 1, k |-> "obj", ch |-> "",
                      items |-> <<>>]
                ELSE IF s[m] \in ObjectLetters
                THEN LET c == SkipWs(s, m + 1)
                     IN  IF c <= Len(s) /\ s[c] = "}"
                         THEN [ok |-> TRUE, next |-> c + 1, k |-> "obj",
                               ch |-> s[m], items |-> <<>>]
                         ELSE ParseFail
                ELSE ParseFail
        ELSE IF s[j] = "[" THEN
            LET m == SkipWs(s, j + 1)
            IN  IF m > Len(s) THEN ParseFail
                ELSE IF s[m] = "]"
                THEN [ok |-> TRUE, next |-> m + 1, k |-> "arr", ch |-> "",
                      items |-> <<>>]
                ELSE ParseElements(s, m, <<>>)
        ELSE IF s[j] = "1"
        THEN [ok |-> TRUE, next |-> SkipDigits(s, j), k |-> "num", ch |-> "",
              items |-> <<>>]
        ELSE ParseFail

\* the elements of an array from position i on, acc being those already read
ParseElements(s, i, acc) ==
    LET v == ParseValue(s, i)
    IN  IF ~v.ok THEN ParseFail
        ELSE LET c == SkipWs(s, v.next)
                 got == Append(acc, [k |-> v.k, ch |-> v.ch])
             IN  IF c > Len(s) THEN ParseFail
                 ELSE IF s[c] = "]"
                 THEN [ok |-> TRUE, next |-> c + 1, k |-> "arr", ch |-> "",
                       items |-> got]
                 ELSE IF s[c] = ","
                 THEN ParseElements(s, c + 1, got)
                 ELSE ParseFail

\* json.loads(s): the value, or ok = FALSE for JSONDecodeError
json_loads(s) ==
    LET v == ParseValue(s, 1)
    IN  IF v.ok /\ SkipWs(s, v.next) > Len(s) THEN v ELSE ParseFail

\* what "for rule in rules" iterates: the elements of a list, the keys of a
\* dict; a number is not iterable
Iterable(v) == v.k \in {"arr", "obj"}
IterItems(v) ==
    IF v.k = "arr" THEN v.items
    ELSE IF v.k = "obj"
    THEN [i \in 1..Cardinality(ObjectMembers(v.ch).has) |->
             [k |-> "str", ch |-> ""]]
    ELSE <<>>

RECURSIVE JoinObjects(_)
JoinObjects(cs) ==
    IF cs = <<>> THEN <<>>
    ELSE IF Len(cs) = 1 THEN <<"{", cs[1], "}">>
    ELSE <<"{", cs[1], "}", ",">> \o JoinObjects(Tail(cs))

\* the JSON text of the rule set whose rules are the objects cs
RuleSetText(cs) == <<"[">> \o JoinObjects(cs) \o <<"]">>

RuleLists == UNION {[1..n -> RuleLetters] : n \in 0..MaxRules}

\* further texts: no JSON, JSON that is no array of rule objects, arrays
\* with whitespace, and rule sets with hyphenated constraint tokens
OddTexts ==
    { <<>>,
      <<"[", "{", "g", "}", "]">>,
      <<"[", "{", "h", "}", ",", "{", "a", "}", "]">>,
      <<"n", "o", "t", " ", "j", "s", "o", "n">>,
      <<"[", "{", "a", "}">>,
      <<"[", "{", "a", "}", ",", "]">>,
      <<"[", "{", "a", "}", "]", "]">>,
      <<" ", "[", " ", "{", "c", "}", " ", "]", "\n">>,
      <<"{", "a", "}">>,
      <<"{", "}">>,
      <<"[", "{", "}", ",", "{", "c", "}", "]">>,
      <<"1">>,
      <<"[", "1", "]">>,
      <<"[", "[", "]", "]">> }

RuleTexts == {RuleSetText(cs) : cs \in RuleLists} \cup OddTexts

-----------------------------------------------------------------------------
(* Tables *)

Range(f) == {f[i] : i \in DOMAIN f}

\* the column layouts and sample rows datasets are drawn from; the second
\* layout is an input file that already carries an Error_Details column
Layouts ==
    { [columns |-> <<"Amount", "Status">>,
       rows |-> { ("Amount" :> JNum(-5)) @@ ("Status" :> JStr("A")),
                  ("Amount" :> JNum(10)) @@ ("Status" :> JStr("C")),
                  ("Amount" :> JNull)    @@ ("Status" :> JStr("A")) }],
      [columns |-> <<"Error_Details", "Amount">>,
       rows |-> { ("Error_Details" :> JNum(3))  @@ ("Amount" :> JNum(0)),
                  ("Error_Details" :> JNum(-1)) @@ ("Amount" :> JNum(10)) }] }

\* pd.read_csv(data_file): every table of 1..MaxRows sample rows
Datasets ==
    UNION { { [columns |-> L.columns, rows |-> rs] :
                rs \in UNION {[1..n -> L.rows] : n \in 1..MaxRows} } :
            L \in Layouts }

\* df[column] as the sequence of its cells
Column(t, c) == [r \in 1..Len(t.rows) |-> t.rows[r][c]]

\* column in df.columns
InColumns(t, column) == column.t = "str" /\ column.s \in Range(t.columns)

\* pd.api.types.is_numeric_dtype(df[column]): read_csv gives a column of
\* numbers and blanks a numeric dtype, any other column the object dtype
is_numeric_dtype(cells) ==
    /\ cells # <<>>
    /\ \A r \in DOMAIN cells : cells[r].t \in {"num", "null"}

\* series.isnull() for one cell
isnull(cell) == cell.t = "null"

\* series.isin(values) for one cell
isin(cell, values) ==
    \E i \in DOMAIN values :
        /\ values[i].t = cell.t
        /\ cell.t \in {"num", "str"}
        /\ values[i].n = cell.n
        /\ values[i].s = cell.s

\* mutant: the column is only added when the table has none of that name
SetErrorDetails_keep(t) ==
    [columns |-> IF "Error_Details" \in Range(t.columns)
                 THEN t.columns
                 ELSE Append(t.columns, "Error_Details"),
     rows |-> [r \in 1..Len(t.rows) |->
                 [c \in DOMAIN t.rows[r] \cup {"Error_Details"} |->
                     IF c \in DOMAIN t.rows[r] THEN t.rows[r][c]
                     ELSE JStr("")]]]

\* df["Error_Details"] = "": a new last column, or the existing column of
\* that name overwritten where it stands
SetErrorDetails(t) ==
    [columns |-> IF "Error_Details" \in Range(t.columns)
                 THEN t.columns
                 ELSE Append(t.columns, "Error_Details"),
     rows |-> [r \in 1..Len(t.rows) |->
                 [c \in DOMAIN t.rows[r] \cup {"Error_Details"} |->
                     IF c = "Error_Details" THEN JStr("")
                     ELSE t.rows[r][c]]]]

\* mutant: a message the cell already consists of is not repeated
iadd_dedup(text, msg) == IF text = msg THEN text ELSE text \o msg

\* text += msg on a cell of Error_Details
iadd(text, msg) == text \o msg

\* df.loc[mask, "Error_Details"] += msg, mask being the set of rows it holds for
AppendWhere(t, mask, msg) ==
    [t EXCEPT !.rows =
        [r \in 1..Len(t.rows) |->
            IF r \in mask
            THEN [t.rows[r] EXCEPT
                    !["Error_Details"] = JStr(iadd(@.s, msg))]
            ELSE t.rows[r]]]

-----------------------------------------------------------------------------
(* validate_data *)

MsgNull(column) == PyStr(column) \o " is missing. Provide a valid value. "
MsgGreater(column, value) ==
    PyStr(column) \o " must be greater than " \o PyStr(value) \o ". "
MsgAllowed(column, value) ==
    PyStr(column) \o " must be one of " \o PyStr(value) \o ". "
MsgMissing(column) == PyStr(column) \o " is missing in the dataset. "

\* df[column].isnull()
NullMask(cells) == {r \in DOMAIN cells : isnull(cells[r])}

\* mutant: < for <=
GreaterMask_strict(cells, bound) ==
    {r \in DOMAIN cells : cells[r].t = "num" /\ cells[r].n < bound}

\* df[column] <= float(value) (NaN compares false)
GreaterMask(cells, bound) ==
    {r \in DOMAIN cells : cells[r].t = "num" /\ cells[r].n <= bound}

\* mutant: the ~ is lost
AllowedMask_member(cells, values) ==
    {r \in DOMAIN cells : isin(cells[r], values)}

\* ~df[column].isin(value)
AllowedMask(cells, values) == {r \in DOMAIN cells : ~isin(cells[r], values)}

\* mutant: only the first row is flagged
MissingMask_first(t) == {r \in 1..Len(t.rows) : r = 1}

\* df["Error_Details"] += msg takes every row
MissingMask(t) == 1..Len(t.rows)

\* one iteration of "for rule in rules" on the table t: the exception it
\* raises ("none" if none) and the table it leaves
RuleStep(t, item) ==
    IF item.k # "obj"
    THEN [exc |-> "AttributeError", df |-> t]
    ELSE
    LET rule == ObjectMembers(item.ch)
        column == rule.column
        constraint == rule.constraint
        value == rule.value
    IN  IF ~Truthy(column) \/ ~Truthy(constraint)
        THEN [exc |-> "none", df |-> t]
        ELSE IF InColumns(t, column)
        THEN LET cells == Column(t, column.s)
             IN  IF constraint = JStr("non-null")
                 THEN [exc |-> "none",
                       df |-> AppendWhere(t, NullMask(cells),
                                          MsgNull(column))]
                 ELSE IF constraint = JStr("greater than")
                         /\ is_numeric_dtype(cells)
                 THEN LET bound == PyFloat(value)
                      IN  IF bound.exc # "none"
                          THEN [exc |-> bound.exc, df |-> t]
                          ELSE [exc |-> "none",
                                df |-> AppendWhere(t,
                                    GreaterMask(cells, bound.n),
                                    MsgGreater(column, value))]
                 ELSE IF constraint = JStr("allowed values")
                         /\ value.t = "list"
                 THEN [exc |-> "none",
                       df |-> AppendWhere(t,
                                  AllowedMask(cells, value.l),
                                  MsgAllowed(column, value))]
                 ELSE [exc |-> "none", df |-> t]
        ELSE [exc |-> "none",
              df |-> AppendWhere(t, MissingMask(t),
                                 MsgMissing(column))]

\* mutant: a text that is no JSON is validated as the empty rule set
ValidateStart_fail_open ==
    /\ pc = "validate"
    /\ LET parsed == json_loads(profiling_rules)
       IN  /\ df' = SetErrorDetails(data)
           /\ rules' = IF parsed.ok THEN IterItems(parsed) ELSE <<>>
           /\ IF ~parsed.ok \/ Iterable(parsed)
              THEN pc' = "loop" /\ raised' = raised
              ELSE pc' = "raised" /\ raised' = "TypeError"
           /\ log' = IF parsed.ok THEN log
                     ELSE Append(log, "Error: Invalid JSON format in extracted rules.")
    /\ idx' = 0
    /\ UNCHANGED <<response, rules_text, cleaned_json, profiling_rules, data,
                   output>>

\* lines 91-98: read the data file, parse the rules, reset Error_Details; a
\* text that is no JSON is reported on stdout and ends the call
ValidateStart ==
    /\ pc = "validate"
    /\ LET parsed == json_loads(profiling_rules)
       IN  IF ~parsed.ok
           THEN /\ log' = Append(log, "Error: Invalid JSON format in extracted rules.")
                /\ pc' = "returned"
                /\ df' = data
                /\ UNCHANGED <<rules, raised>>
           ELSE /\ df' = SetErrorDetails(data)
                /\ rules' = IterItems(parsed)
                /\ IF Iterable(parsed)
                   THEN pc' = "loop" /\ raised' = raised
                   ELSE pc' = "raised" /\ raised' = "TypeError"
                /\ log' = log
    /\ idx' = 0
    /\ UNCHANGED <<response, rules_text, cleaned_json, profiling_rules, data,
                   output>>

\* lines 100-113: one iteration of the loop over the rules
ApplyRule ==
    /\ pc = "loop"
    /\ idx < Len(rules)
    /\ LET step == RuleStep(df, rules[idx + 1])
       IN  IF step.exc # "none"
           THEN /\ raised' = step.exc
                /\ pc' = "raised"
                /\ UNCHANGED <<df, idx>>
           ELSE /\ df' = step.df
                /\ idx' = idx + 1
                /\ UNCHANGED <<pc, raised>>
    /\ UNCHANGED <<response, rules_text, cleaned_json, profiling_rules, data,
                   rules, output, log>>

\* the rows whose Error_Details cell gets the red fill: cell.value is truthy
FillRows(t) ==
    {r \in 1..Len(t.rows) : Truthy(t.rows[r]["Error_Details"])}

\* what the file system lets the report writer do
IoOutcomes == {"ok", "to_excel fails", "save fails"}

\* lines 115-130: df.to_excel, then reopen, fill and wb.save
WriteReport ==
    /\ pc = "loop"
    /\ idx = Len(rules)
    /\ \E io \in IoOutcomes :
        CASE io = "ok" ->
                /\ output' = [written |-> TRUE, table |-> df,
                              fill |-> FillRows(df)]
                /\ pc' = "done"
                /\ log' = Append(log, "Validation results saved")
                /\ raised' = raised
          [] io = "to_excel fails" ->
                /\ pc' = "raised"
                /\ raised' = "OSError"
                /\ UNCHANGED <<output, log>>
          [] io = "save fails" ->
                /\ output' = [written |-> TRUE, table |-> df, fill |-> {}]
                /\ pc' = "raised"
                /\ raised' = "OSError"
                /\ log' = log
    /\ UNCHANGED <<response, rules_text, cleaned_json, profiling_rules, data,
                   df, rules, idx>>

-----------------------------------------------------------------------------
(* clean_json_response on its own *)

NoOutput == [written |-> FALSE, table |-> <<>>, fill |-> {}]
NoTable == [columns |-> <<>>, rows |-> <<>>]
NoResponse ==
    [status_code |-> 0, content |-> <<>>,
     body |-> [json |-> "invalid", choices |-> "absent", first |-> "none",
               message |-> "absent", content |-> "absent"]]

InitSanitize ==
    /\ pc = "clean"
    /\ rules_text \in RawStrings
    /\ cleaned_json = <<>>
    /\ response = NoResponse
    /\ profiling_rules = <<>>
    /\ data = NoTable
    /\ df = NoTable
    /\ rules = <<>>
    /\ idx = 0
    /\ output = NoOutput
    /\ raised = "none"
    /\ log = <<>>

CleanJsonResponse ==
    /\ pc = "clean"
    /\ cleaned_json' = clean_json_response(rules_text)
    /\ pc' = "cleaned"
    /\ UNCHANGED <<response, rules_text, profiling_rules, data, df, rules,
                   idx, output, raised, log>>

NextSanitize == CleanJsonResponse

SpecSanitize == InitSanitize /\ [][NextSanitize]_vars

-----------------------------------------------------------------------------
(* extract_profile_rules *)

\* the shapes of response body the model draws from.  json: what
\* response.json() finds; choices, first, message, content: what the keys
\* "choices", choices[0], "message" and "content" hold
Shape(json, choices, first, message, content) ==
    [json |-> json, choices |-> choices, first |-> first,
     message |-> message, content |-> content]

BodyShapes ==
    { Shape("invalid", "absent", "none", "absent", "absent"),
      Shape("list", "absent", "none", "absent", "absent"),
      Shape("dict", "absent", "none", "absent", "absent"),
      Shape("dict", "null", "none", "absent", "absent"),
      Shape("dict", "list", "none", "absent", "absent"),
      Shape("dict", "list", "int", "absent", "absent"),
      Shape("dict", "list", "dict", "absent", "absent"),
      Shape("dict", "list", "dict", "null", "absent"),
      Shape("dict", "list", "dict", "dict", "absent"),
      Shape("dict", "list", "dict", "dict", "null"),
      Shape("dict", "list", "dict", "dict", "str") }

\* the message contents the model draws from
Contents ==
    { RuleSetText(<<>>),
      RuleSetText(<<"a", "b">>),
      <<" ">> \o RuleSetText(<<"c", "d">>),
      FenceOpen \o RuleSetText(<<"a", "c">>) \o FenceClose,
      <<"o", "k", "\n">> \o FenceOpen \o RuleSetText(<<"b">>) \o FenceClose,
      BoxedOpen \o RuleSetText(<<>>) \o BoxedClose,
      BoxedOpen \o RuleSetText(<<"a">>) \o BoxedClose,
      RuleSetText(<<"e">>),
      <<"[", "{", "a", "}">>,
      <<"n", "o", " ", "r", "u", "l", "e", "s">>,
      <<>> }

StatusCodes == {200, 404, 500}

Responses ==
    { [status_code |-> st, body |-> b, content |-> c] :
        st \in StatusCodes, b \in BodyShapes, c \in Contents }

\* well-formed responses: only a body with a content string carries a text
WellFormed(r) == r.body.content # "str" => r.content = <<>>

EmptyList == <<"[", "]">>

\* s.strip()
strip(s) ==
    LET keep == {j \in 1..Len(s) : s[j] \notin Whitespace}
    IN  IF keep = {} THEN <<>>
        ELSE SubSeq(s, Min(keep), CHOOSE m \in keep : \A n \in keep : n <= m)

\* s.startswith(prefix)
startswith(s, prefix) == MatchAt(s, 1, prefix)

\* lines 59-87 for the response r: the exception that leaves the function
\* ("none" if none), the string returned, the message printed and the text
\* handed to and returned by clean_json_response
ExtractResult(r) ==
    LET Ret(text, msg) ==
            [exc |-> "none", ret |-> text, msg |-> msg,
             rules_text |-> <<>>, cleaned |-> <<>>]
        Raise(e) ==
            [exc |-> e, ret |-> <<>>, msg |-> "",
             rules_text |-> <<>>, cleaned |-> <<>>]
        b == r.body
    IN  IF r.status_code # 200
        THEN Ret(EmptyList, "Error: Received status code")
        ELSE IF b.json = "invalid"
        THEN Ret(EmptyList, "Error: Failed to parse JSON response")
        ELSE IF b.json # "dict"
        THEN Raise("AttributeError")
        ELSE IF b.choices \in {"absent", "null"} \/ b.first = "none"
        THEN Ret(EmptyList, "Error: API response is missing expected fields.")
        ELSE IF b.first # "dict"
        THEN Raise("TypeError")
        ELSE IF b.message = "absent"
        THEN Ret(EmptyList, "Error: API response is missing expected fields.")
        ELSE IF b.message # "dict"
        THEN Raise("TypeError")
        ELSE IF b.content = "absent"
        THEN Ret(EmptyList, "Error: API response is missing expected fields.")
        ELSE IF b.content # "str"
        THEN Raise("TypeError")
        ELSE LET cleaned == clean_json_response(r.content)
             IN  IF startswith(strip(cleaned), <<"[">>)
                 THEN [exc |-> "none", ret |-> cleaned, msg |-> "",
                       rules_text |-> r.content, cleaned |-> cleaned]
                 ELSE [exc |-> "none", ret |-> EmptyList,
                       msg |-> "Error: LLM response is not valid JSON.",
                       rules_text |-> r.content, cleaned |-> cleaned]

\* line 135: profiling_rules = extract_profile_rules(text, ...)
ExtractProfileRules ==
    /\ pc = "extract"
    /\ LET res == ExtractResult(response)
       IN  /\ rules_text' = res.rules_text
           /\ cleaned_json' = res.cleaned
           /\ log' = IF res.msg = "" THEN log ELSE Append(log, res.msg)
           /\ IF res.exc = "none"
              THEN /\ profiling_rules' = res.ret
                   /\ pc' = "validate"
                   /\ raised' = raised
              ELSE /\ profiling_rules' = profiling_rules
                   /\ pc' = "raised"
                   /\ raised' = res.exc
    /\ UNCHANGED <<response, data, df, rules, idx, output>>

-----------------------------------------------------------------------------
(* The script, lines 132-141: extract the rules, then validate the data *)

Init ==
    /\ pc = "extract"
    /\ response \in {r \in Responses : WellFormed(r)}
    /\ data \in Datasets
    /\ rules_text = <<>>
    /\ cleaned_json = <<>>
    /\ profiling_rules = <<>>
    /\ df = NoTable
    /\ rules = <<>>
    /\ idx = 0
    /\ output = NoOutput
    /\ raised = "none"
    /\ log = <<>>

Next == ExtractProfileRules \/ ValidateStart \/ ApplyRule \/ WriteReport

Spec == Init /\ [][Next]_vars

\* extract_profile_rules on its own
NextExtract == ExtractProfileRules

SpecExtract == Init /\ [][NextExtract]_vars

-----------------------------------------------------------------------------
(* validate_data called on any rule-set text *)

InitValidate ==
    /\ pc = "validate"
    /\ profiling_rules \in RuleTexts
    /\ data \in Datasets
    /\ response = NoResponse
    /\ rules_text = <<>>
    /\ cleaned_json = <<>>
    /\ df = NoTable
    /\ rules = <<>>
    /\ idx = 0
    /\ output = NoOutput
    /\ raised = "none"
    /\ log = <<>>

NextValidate == ValidateStart \/ ApplyRule \/ WriteReport

SpecValidate == InitValidate /\ [][NextValidate]_vars

-----------------------------------------------------------------------------
(* Properties of clean_json_response (checked under SpecSanitize) *)

\* raw holds a block: open at i, and close somewhere after it
HasBlock(open, close, raw) ==
    \E i \in 1..Len(raw) : \E j \in 1..Len(raw) :
        MatchAt(raw, i, open) /\ j >= i + Len(open) /\ MatchAt(raw, j, close)

\* inner is the interior of the first block of raw: raw is
\* before open inner close after, no block starts inside before open, and
\* close does not occur earlier in inner close
IsFirstInterior(open, close, raw, inner) ==
    \E i \in 1..Len(raw) :
        LET j == i + Len(open) + Len(inner)
        IN  /\ MatchAt(raw, i, open)
            /\ MatchAt(raw, j, close)
            /\ inner = SubSeq(raw, i + Len(open), j - 1)
            /\ \A j2 \in (i + Len(open))..(j - 1) : ~MatchAt(raw, j2, close)
            /\ \A i2 \in 1..(i - 1) :
                   ~(MatchAt(raw, i2, open)
                     /\ \E j2 \in (i2 + Len(open))..Len(raw) :
                            MatchAt(raw, j2, close))

\* the three-case reference, the boxed wrapper being opened by boxedOpen
SanitizeReference(boxedOpen, raw, result) ==
    IF HasBlock(FenceOpen, FenceClose, raw)
    THEN IsFirstInterior(FenceOpen, FenceClose, raw, result)
    ELSE IF HasBlock(boxedOpen, BoxedClose, raw)
    THEN IsFirstInterior(boxedOpen, BoxedClose, raw, result)
    ELSE result = raw

\* boxed{ without the leading backslash
PlainBoxedOpen == <<"b", "o", "x", "e", "d", "{">>

\* C7, as stated: sanitize(raw) is the interior of the first json fence if
\* there is one, else the interior of the first boxed{...} wrapper if there is
\* one, else raw itself
C7_BoxedWithoutBackslash ==
    pc = "cleaned" => SanitizeReference(PlainBoxedOpen, rules_text, cleaned_json)

\* C7, amended: the same three cases, the wrapper being \boxed{...} with its
\* leading backslash; boxed{...} without the backslash is no marker
C7_SanitizeThreeCases ==
    pc = "cleaned" => SanitizeReference(BoxedOpen, rules_text, cleaned_json)

\* a text with a fence and a \boxed wrapper has been cleaned to the fence's
\* interior
C7_Witness ==
    /\ pc = "cleaned"
    /\ rules_text =
         BoxedOpen \o <<"x", "}">> \o FenceOpen \o <<"[", "]">> \o FenceClose
    /\ cleaned_json = <<"[", "]">>

-----------------------------------------------------------------------------
(* Properties of validate_data (checked under SpecValidate) *)

\* validate_data has been entered and has got past json.loads
ValidateRan == pc \in {"returned", "loop", "done", "raised"}

\* C1, as stated: a rule-set text that is no JSON makes validate fail with an
\* error that reaches the caller, no rule applied and no report written
C1_ParseErrorReachesCaller ==
    (ValidateRan /\ ~json_loads(profiling_rules).ok) =>
        /\ raised # "none"
        /\ ~output.written
        /\ df = data

\* C1, amended: a rule-set text that is no JSON makes validate print an error
\* message and return normally (no exception reaches the caller), no rule
\* applied, the table left as read and no report written
C1_InvalidJsonReturnsQuietly ==
    (ValidateRan /\ ~json_loads(profiling_rules).ok) =>
        /\ pc = "returned"
        /\ raised = "none"
        /\ log = <<"Error: Invalid JSON format in extracted rules.">>
        /\ ~output.written
        /\ df = data
        /\ idx = 0

\* validate_data has returned on the text "not json"
C1_Witness ==
    /\ pc = "returned"
    /\ profiling_rules = <<"n", "o", "t", " ", "j", "s", "o", "n">>
    /\ ~output.written

\* the loop is about to apply a rule object
AtRule == pc = "loop" /\ idx < Len(rules) /\ rules[idx + 1].k = "obj"

\* that rule's members (when AtRule)
CurrentRule == ObjectMembers(rules[idx + 1].ch)

\* the rule names a column and a constraint
WellNamed(rule) ==
    /\ rule.column.t = "str" /\ rule.column.s # ""
    /\ rule.constraint.t = "str" /\ rule.constraint.s # ""

\* the Diagnostic of row r of table t
Diag(t, r) == t.rows[r]["Error_Details"].s

\* the step leaves every Diagnostic, and the loop, as they were
AddsNothing == \A r \in 1..Len(data.rows) : Diag(df', r) = Diag(df, r)

\* the step appends msg to the Diagnostic of exactly the rows in hit
AddsExactly(hit, msg) ==
    \A r \in 1..Len(data.rows) :
        Diag(df', r) = IF r \in hit THEN Diag(df, r) \o msg ELSE Diag(df, r)

\* every cell of the dataset's column c is a number or blank
NumericInDataset(c) ==
    \A r \in 1..Len(data.rows) : data.rows[r][c].t \in {"num", "null"}

\* the greater-than clause for the constraint token `token`, on the dataset
\* columns not in excluded
GreaterThanClause(token, excluded) ==
    (/\ AtRule
     /\ WellNamed(CurrentRule)
     /\ CurrentRule.constraint.s = token
     /\ CurrentRule.value.t = "num"
     /\ CurrentRule.column.s \in Range(data.columns)
     /\ CurrentRule.column.s \notin excluded)
    => LET c == CurrentRule.column.s
           v == CurrentRule.value.n
       IN  /\ raised' = "none"
           /\ IF NumericInDataset(c)
              THEN AddsExactly(
                     {r \in 1..Len(data.rows) : /\ data.rows[r][c].t = "num"
                                                /\ data.rows[r][c].n <= v},
                     c \o " must be greater than " \o ToString(v) \o ". ")
              ELSE AddsNothing

\* C3, as stated: a rule `greater-than` with number v on a column of the
\* dataset adds "{column} must be greater than {v}. " to exactly the rows
\* whose value is <= v when the column is numeric, and nothing, without error,
\* when it is not
C3_HyphenTokenAnyColumn ==
    [][GreaterThanClause("greater-than", {})]_vars

\* C3, amended: the same for the constraint token `greater than` (with a
\* space; `greater-than` is no supported token) on a dataset column other
\* than Error_Details
C3_GreaterThan ==
    [][GreaterThanClause("greater than", {"Error_Details"})]_vars

\* rows Amount = -5 and Amount = 10 checked against Amount greater than 0:
\* the first row is flagged, the second is not
C3_Witness ==
    /\ pc = "done"
    /\ rules = <<[k |-> "obj", ch |-> "a"]>>
    /\ Len(data.rows) = 2
    /\ data.rows[1]["Amount"] = JNum(-5)
    /\ data.rows[2]["Amount"] = JNum(10)
    /\ Diag(output.table, 1) = "Amount must be greater than 0. "
    /\ Diag(output.table, 2) = ""

\* the allowed-values clause for the constraint token `token`, on the dataset
\* columns not in excluded
AllowedValuesClause(token, excluded) ==
    (/\ AtRule
     /\ WellNamed(CurrentRule)
     /\ CurrentRule.constraint.s = token
     /\ CurrentRule.column.s \in Range(data.columns)
     /\ CurrentRule.column.s \notin excluded)
    => LET c == CurrentRule.column.s
           S == CurrentRule.value
       IN  /\ raised' = "none"
           /\ IF S.t = "list"
              THEN AddsExactly(
                     {r \in 1..Len(data.rows) :
                        \A i \in DOMAIN S.l : S.l[i] # data.rows[r][c]},
                     c \o " must be one of " \o PyStr(S) \o ". ")
              ELSE AddsNothing

\* C4, as stated: a rule `allowed-values` with a sequence S on a column of
\* the dataset adds "{column} must be one of {S}. " to exactly the rows whose
\* value is not in S, and nothing when the value is no sequence
C4_HyphenTokenAnyColumn ==
    [][AllowedValuesClause("allowed-values", {})]_vars

\* C4, amended: the same for the constraint token `allowed values` (with a
\* space; `allowed-values` is no supported token) on a dataset column other
\* than Error_Details
C4_AllowedValues ==
    [][AllowedValuesClause("allowed values", {"Error_Details"})]_vars

\* rows Status = "A" and Status = "C" checked against Status in ["A", "B"]:
\* only the second row is flagged
C4_Witness ==
    /\ pc = "done"
    /\ rules = <<[k |-> "obj", ch |-> "b"]>>
    /\ Len(data.rows) = 2
    /\ data.rows[1]["Status"] = JStr("A")
    /\ data.rows[2]["Status"] = JStr("C")
    /\ Diag(output.table, 1) = ""
    /\ Diag(output.table, 2) = "Status must be one of ['A', 'B']. "

\* the missing-column clause for the rules whose column is not in present
MissingColumnClause(present) ==
    (/\ AtRule
     /\ WellNamed(CurrentRule)
     /\ CurrentRule.column.s \notin present)
    => /\ raised' = "none"
       /\ AddsExactly(1..Len(data.rows),
                      CurrentRule.column.s \o " is missing in the dataset. ")

\* C5, as stated: a rule with a column and a constraint whose column is not
\* a column of the dataset adds "{column} is missing in the dataset. " to
\* every row, whatever its constraint and value
C5_AbsentFromDataset ==
    [][MissingColumnClause(Range(data.columns))]_vars

\* C5, amended: the same when the column is neither a column of the dataset
\* nor Error_Details, the column validate itself adds before the loop
C5_MissingColumn ==
    [][MissingColumnClause(Range(data.columns) \cup {"Error_Details"})]_vars

\* a rule on the absent column Branch with the unsupported constraint
\* `unique` has flagged both rows
C5_Witness ==
    /\ pc = "done"
    /\ rules = <<[k |-> "obj", ch |-> "d"]>>
    /\ Len(data.rows) = 2
    /\ \A r \in 1..2 :
          Diag(output.table, r) = "Branch is missing in the dataset. "

\* the constraint tokens validate_data dispatches on
SupportedTokens == {"non-null", "greater than", "allowed values"}

\* rule names no column or no constraint, has an unsupported constraint, or
\* a value of the wrong type for its constraint
Malformed(rule) ==
    \/ ~WellNamed(rule)
    \/ rule.constraint.s \notin SupportedTokens
    \/ rule.constraint.s = "greater than" /\ rule.value.t # "num"
    \/ rule.constraint.s = "allowed values" /\ rule.value.t # "list"

\* C6: a malformed rule (on a column the table has, when it names one) is
\* ignored and never fatal: the step raises nothing, adds no diagnostic and
\* the loop goes on to the next rule
C6_MalformedRuleIgnored ==
    [][(/\ AtRule
        /\ Malformed(CurrentRule)
        /\ WellNamed(CurrentRule) => CurrentRule.column.s \in Range(df.columns))
       => /\ raised' = "none"
          /\ pc' = "loop"
          /\ idx' = idx + 1
          /\ AddsNothing]_vars

\* C8, as stated: with the rule set "[]" the report is the dataset, every
\* column, row and value unchanged, plus a last column Error_Details that is
\* empty in every row
C8_AppendedForEveryDataset ==
    (pc = "done" /\ profiling_rules = EmptyList) =>
        /\ output.table.columns = Append(data.columns, "Error_Details")
        /\ Len(output.table.rows) = Len(data.rows)
        /\ \A r \in 1..Len(data.rows) :
              /\ output.table.rows[r]["Error_Details"] = JStr("")
              /\ \A c \in Range(data.columns) :
                    output.table.rows[r][c] = data.rows[r][c]

\* C8, amended: with the rule set "[]" and a dataset without a column
\* Error_Details the report is the dataset unchanged plus a last, all-empty
\* column Error_Details; when the dataset already has that column the report
\* has the dataset's columns in their order, the Error_Details values
\* replaced by the empty string, everything else unchanged
C8_EmptyRuleSet ==
    (pc = "done" /\ profiling_rules = EmptyList) =>
        /\ output.table.columns =
             IF "Error_Details" \in Range(data.columns)
             THEN data.columns
             ELSE Append(data.columns, "Error_Details")
        /\ Len(output.table.rows) = Len(data.rows)
        /\ \A r \in 1..Len(data.rows) :
              /\ output.table.rows[r]["Error_Details"] = JStr("")
              /\ \A c \in Range(data.columns) \ {"Error_Details"} :
                    output.table.rows[r][c] = data.rows[r][c]

\* the report of a two-row Amount/Status dataset under the rule set "[]"
C8_Witness ==
    /\ pc = "done"
    /\ profiling_rules = EmptyList
    /\ output.table.columns = <<"Amount", "Status", "Error_Details">>
    /\ Len(output.table.rows) = 2

\* whether row r, its Diagnostic so far being diag, violates the rule: an
\* absent column, a blank under non-null, a number <= the bound under greater
\* than on a numeric column, a value outside the list under allowed values.
\* The columns are those of the table under annotation: the dataset's and
\* Error_Details, which holds the Diagnostic
Violates(rule, r, diag) ==
    LET c == rule.column.s
        cell == IF c = "Error_Details" THEN JStr(diag) ELSE data.rows[r][c]
    IN  IF c \notin Range(data.columns) \cup {"Error_Details"} THEN TRUE
        ELSE IF rule.constraint.s = "non-null" THEN cell.t = "null"
        ELSE IF rule.constraint.s = "greater than"
        THEN /\ c # "Error_Details"
             /\ NumericInDataset(c)
             /\ cell.t = "num"
             /\ cell.n <= PyFloat(rule.value).n
        ELSE IF rule.constraint.s = "allowed values"
        THEN /\ rule.value.t = "list"
             /\ \A i \in DOMAIN rule.value.l : rule.value.l[i] # cell
        ELSE FALSE

\* the message of a rule
Message(rule) ==
    LET c == rule.column.s
    IN  IF c \notin Range(data.columns) \cup {"Error_Details"}
        THEN c \o " is missing in the dataset. "
        ELSE IF rule.constraint.s = "non-null"
        THEN c \o " is missing. Provide a valid value. "
        ELSE IF rule.constraint.s = "greater than"
        THEN c \o " must be greater than " \o PyStr(rule.value) \o ". "
        ELSE c \o " must be one of " \o PyStr(rule.value) \o ". "

RECURSIVE ExpectedDiag(_, _)
\* the messages of the rules among the first n that row r violates, in rule
\* order, each as often as it is listed
ExpectedDiag(r, n) ==
    IF n = 0 THEN ""
    ELSE LET before == ExpectedDiag(r, n - 1)
             rule == ObjectMembers(rules[n].ch)
         IN  IF WellNamed(rule) /\ Violates(rule, r, before)
             THEN before \o Message(rule)
             ELSE before

-----------------------------------------------------------------------------
(* Properties of extract_profile_rules (checked under SpecExtract) *)

\* C2: for every status code and body, extract raises nothing and returns
\* "[]" when the status is not 200, when the content field is lacking or when
\* the cleaned content does not start with "[", and the cleaned content
\* otherwise
C2_ExtractNeverRaises ==
    pc # "extract" =>
        /\ raised = "none"
        /\ profiling_rules =
             IF \/ response.status_code # 200
                \/ response.body.content # "str"
                \/ ~startswith(strip(clean_json_response(response.content)),
                               <<"[">>)
             THEN EmptyList
             ELSE clean_json_response(response.content)

-----------------------------------------------------------------------------
(* Properties of the script (checked under Spec) *)

\* the extraction failed: a status other than 200, or a body that does not
\* hold a content string
ExtractionFailed == response.status_code # 200 \/ response.body.content # "str"

\* C10: an extraction failure is not fatal: extract hands "[]" to validate,
\* which runs and writes a report with every Diagnostic empty and no cell
\* filled; and nothing but a report write failure (or a parse failure, which
\* returns) ends a run without a report
C10_ExtractionFailureNotFatal ==
    /\ (ExtractionFailed /\ pc # "extract") =>
          /\ profiling_rules = EmptyList
          /\ pc # "returned"
          /\ pc = "done" =>
                /\ output.written
                /\ output.fill = {}
                /\ \A r \in 1..Len(data.rows) : Diag(output.table, r) = ""
    /\ pc = "raised" => raised = "OSError"

====
